---- MODULE Spec2Model ----
(***************************************************************************)
(* Model of nextinspace/space.py: the boxed terminal renderer of Event,    *)
(* Launch and Rocket.                                                      *)
(*                                                                         *)
(* A Python str is a sequence of one-character strings.  Box-drawing       *)
(* glyphs and colorama codes are tokens with multi-character names, so     *)
(* they can never be confused with a character of a field value.           *)
(***************************************************************************)
EXTENDS Integers, Sequences, FiniteSets, TLC

\* ------------------------------------------------------------ constants

MAX_LINE_LENGTH == 88

CHART_WIDTH == 59

\* Verbosity (Enum)
QUIET == 1

NORMAL == 2

VERBOSE == 3

Verbosity == {QUIET, NORMAL, VERBOSE}

\* ------------------------------------------------------------ glyphs, codes

BOX_V  == "BOX_V"     \* U+2502, the vertical border
BOX_H  == "BOX_H"     \* U+2500, the horizontal rule
BOX_DR == "BOX_DR"    \* U+250C, top-left corner
BOX_DL == "BOX_DL"    \* U+2510, top-right corner
BOX_UR == "BOX_UR"    \* U+2514, bottom-left corner
BOX_UL == "BOX_UL"    \* U+2518, bottom-right corner
BOX_VR == "BOX_VR"    \* U+251C, left joint
BOX_VL == "BOX_VL"    \* U+2524, right joint

\* colorama codes: zero-width on the terminal
STYLE_BRIGHT    == "Style.BRIGHT"
STYLE_RESET_ALL == "Style.RESET_ALL"
FORE_CYAN       == "Fore.CYAN"
FORE_GREEN      == "Fore.GREEN"
FORE_RESET      == "Fore.RESET"

StyleCodes == {STYLE_BRIGHT, STYLE_RESET_ALL, FORE_CYAN, FORE_GREEN, FORE_RESET}

\* ------------------------------------------------------------ str helpers

SP == " "

NL == "\n"

\* c * n
Rep(c, n) == [k \in 1..n |-> c]

\* s[a:b] with 0-based Python bounds, 0 <= a, b
Slice(s, a, b) ==
    LET hi == IF b > Len(s) THEN Len(s) ELSE b
    IN  IF a >= hi THEN <<>> ELSE SubSeq(s, a + 1, hi)

\* fault: ljust pads to one character less than the width
ljust_OneShort(s, width) ==
    IF Len(s) >= width - 1 THEN s ELSE s \o Rep(SP, width - 1 - Len(s))

\* str.ljust(width, " "): never truncates
ljust(s, width) ==
    IF Len(s) >= width THEN s ELSE s \o Rep(SP, width - Len(s))

\* str.center(width, " "): never truncates; CPython puts
\* marg // 2 + (marg & width & 1) fill characters on the left
center(s, width) ==
    IF Len(s) >= width THEN s
    ELSE LET marg  == width - Len(s)
             left  == (marg \div 2) + (IF marg % 2 = 1 /\ width % 2 = 1 THEN 1 ELSE 0)
         IN  Rep(SP, left) \o s \o Rep(SP, marg - left)

DigitChar(d) == <<"0", "1", "2", "3", "4", "5", "6", "7", "8", "9">>[d + 1]

RECURSIVE str(_)
\* str(n) of a non-negative int: its decimal digits
str(n) == IF n < 10 THEN <<DigitChar(n)>> ELSE str(n \div 10) \o <<DigitChar(n % 10)>>

\* zero-padded two-digit field of strftime (%d %m %I %M)
Pad2(n) == IF n < 10 THEN <<"0">> \o str(n) ELSE str(n)

\* ------------------------------------------------------------ datetime.strftime

MonthName(m) ==
    << <<"J","a","n","u","a","r","y">>,
       <<"F","e","b","r","u","a","r","y">>,
       <<"M","a","r","c","h">>,
       <<"A","p","r","i","l">>,
       <<"M","a","y">>,
       <<"J","u","n","e">>,
       <<"J","u","l","y">>,
       <<"A","u","g","u","s","t">>,
       <<"S","e","p","t","e","m","b","e","r">>,
       <<"O","c","t","o","b","e","r">>,
       <<"N","o","v","e","m","b","e","r">>,
       <<"D","e","c","e","m","b","e","r">> >>[m]

\* date.weekday(): 0 = Monday ... 6 = Sunday (proleptic Gregorian calendar)
Weekday(y, m, d) ==
    LET t  == <<0, 3, 2, 5, 0, 3, 5, 1, 4, 6, 2, 4>>
        yy == IF m < 3 THEN y - 1 ELSE y
        sun0 == (yy + (yy \div 4) - (yy \div 100) + (yy \div 400) + t[m] + d) % 7
    IN  (sun0 + 6) % 7

DayAbbr(wd) ==
    << <<"M","o","n">>, <<"T","u","e">>, <<"W","e","d">>, <<"T","h","u">>,
       <<"F","r","i">>, <<"S","a","t">>, <<"S","u","n">> >>[wd + 1]

\* %I: the hour on a 12-hour clock, zero-padded
Hour12(h) == IF h % 12 = 0 THEN 12 ELSE h % 12

\* mission_date.strftime(DATE_FMAT_STR), DATE_FMAT_STR = "%a %B %d, %Y %I:%M %p %Z";
\* %Z is the empty string for a naive datetime
strftime_DATE_FMAT_STR(dt) ==
    DayAbbr(Weekday(dt.year, dt.month, dt.day)) \o <<SP>>
    \o MonthName(dt.month) \o <<SP>>
    \o Pad2(dt.day) \o <<",", SP>>
    \o str(dt.year) \o <<SP>>
    \o Pad2(Hour12(dt.hour)) \o <<":">> \o Pad2(dt.minute) \o <<SP>>
    \o (IF dt.hour < 12 THEN <<"A", "M">> ELSE <<"P", "M">>) \o <<SP>>
    \o dt.tzname

\* maiden_flight_date.strftime("%Y-%m-%d")
strftime_Ymd(dt) ==
    str(dt.year) \o <<"-">> \o Pad2(dt.month) \o <<"-">> \o Pad2(dt.day)

\* ------------------------------------------------------------ textwrap.wrap

Letters ==
    {"a","b","c","d","e","f","g","h","i","j","k","l","m",
     "n","o","p","q","r","s","t","u","v","w","x","y","z",
     "A","B","C","D","E","F","G","H","I","J","K","L","M",
     "N","O","P","Q","R","S","T","U","V","W","X","Y","Z"}

Digits == {"0","1","2","3","4","5","6","7","8","9"}

\* string.whitespace restricted to the characters the inputs use
Whitespace == {SP, NL}

IsSpace(c) == c \in Whitespace

\* [^\d\W]
IsLetter(c) == c \in Letters

\* \w
IsWordChar(c) == c \in Letters \cup Digits \cup {"_"}

\* [\w!"'&.,?]
IsWordPunct(c) == IsWordChar(c) \/ c \in {"!", "\"", "'", "&", ".", ",", "?"}

\* t[i], or a mark past either end of t
At(t, i) == IF i >= 1 /\ i <= Len(t) THEN t[i] ELSE "EOS"

\* TextWrapper._munge_whitespace: every whitespace character becomes a space
munge_whitespace(text) ==
    [i \in 1..Len(text) |-> IF IsSpace(text[i]) THEN SP ELSE text[i]]

\* the least of a non-empty set of positions
Min(P) == CHOOSE p \in P : \A q \in P : p <= q

\* the first position >= i whose character is not in set S (Len(t)+1 at the end)
RunEnd(t, i, S) == Min({p \in i..(Len(t) + 1) : At(t, p) \notin S})

\* -{2,}(?=\w) matches at position i: the whole run of hyphens, then a \w
EmDashAhead(t, i) ==
    /\ At(t, i) = "-"
    /\ At(t, i + 1) = "-"
    /\ IsWordChar(At(t, RunEnd(t, i, {"-"})))

\* the hyphen at position h ends a chunk:
\* -(?:(?<=[^\d\W]{2}-)|(?<=[^\d\W]-[^\d\W]-))(?=[^\d\W]-?[^\d\W])
HyphenBreak(t, h) ==
    /\ At(t, h) = "-"
    /\ \/ IsLetter(At(t, h - 2)) /\ IsLetter(At(t, h - 1))
       \/ /\ IsLetter(At(t, h - 3)) /\ At(t, h - 2) = "-" /\ IsLetter(At(t, h - 1))
    /\ IsLetter(At(t, h + 1))
    /\ \/ IsLetter(At(t, h + 2))
       \/ At(t, h + 2) = "-" /\ IsLetter(At(t, h + 3))

\* wordsep_re's third alternative from position i: the lazy [^ws]+? stops at the
\* first position p > i where a hyphen break, the end of the word or an em-dash
\* follows; the result is the position after the chunk
WordEnd(t, i) ==
    LET p == Min({q \in (i + 1)..(Len(t) + 1) :
                     \/ HyphenBreak(t, q)
                     \/ q > Len(t)
                     \/ IsSpace(At(t, q))
                     \/ IsWordPunct(t[q - 1]) /\ EmDashAhead(t, q)})
    IN  IF HyphenBreak(t, p) THEN p + 1 ELSE p

\* the position after the chunk wordsep_re matches at position i
ChunkEnd(t, i) ==
    IF IsSpace(t[i]) THEN RunEnd(t, i, Whitespace)
    ELSE IF IsWordPunct(At(t, i - 1)) /\ EmDashAhead(t, i) THEN RunEnd(t, i, {"-"})
    ELSE WordEnd(t, i)

RECURSIVE SplitFrom(_, _)
SplitFrom(t, i) ==
    IF i > Len(t) THEN <<>>
    ELSE LET e == ChunkEnd(t, i) IN <<SubSeq(t, i, e - 1)>> \o SplitFrom(t, e)

\* TextWrapper._split_chunks (break_on_hyphens=True)
split_chunks(text) == SplitFrom(munge_whitespace(text), 1)

\* chunk.strip() == ''
IsBlank(chunk) == \A i \in 1..Len(chunk) : IsSpace(chunk[i])

RECURSIVE Concat(_)
\* ''.join(chunks)
Concat(ss) == IF ss = <<>> THEN <<>> ELSE Head(ss) \o Concat(Tail(ss))

RECURSIVE FitCount(_, _, _)
\* how many leading chunks the inner loop of _wrap_chunks appends to a line
\* that has room for `room` more characters
FitCount(chunks, n, room) ==
    IF n < Len(chunks) /\ Len(chunks[n + 1]) <= room
    THEN FitCount(chunks, n + 1, room - Len(chunks[n + 1]))
    ELSE n

\* chunk.rfind('-', 0, space_left): 0-based index of the last hyphen, or -1
RFindHyphen(chunk, space_left) ==
    LET hs == {i \in 1..Len(chunk) : i <= space_left /\ chunk[i] = "-"}
    IN  IF hs = {} THEN -1 ELSE (CHOOSE i \in hs : \A j \in hs : j <= i) - 1

\* TextWrapper._handle_long_word (break_long_words=True, break_on_hyphens=True):
\* how many characters of the chunk go on the current line
LongWordCut(chunk, cur_len, width) ==
    LET space_left == IF width < 1 THEN 1 ELSE width - cur_len
        hyphen     == RFindHyphen(chunk, space_left)
    IN  IF /\ Len(chunk) > space_left
           /\ hyphen > 0
           /\ \E i \in 1..hyphen : chunk[i] # "-"
        THEN hyphen + 1
        ELSE space_left

RECURSIVE wrap_chunks(_, _, _, _, _)
\* TextWrapper._wrap_chunks (drop_whitespace=True, max_lines=None); `chunks`
\* holds the chunks still to place, the next one first
wrap_chunks(chunks, lines, width, initial_indent, subsequent_indent) ==
    IF chunks = <<>> THEN lines
    ELSE
    LET indent == IF lines # <<>> THEN subsequent_indent ELSE initial_indent
        w      == width - Len(indent)
        c0     == IF IsBlank(chunks[1]) /\ lines # <<>> THEN Tail(chunks) ELSE chunks
        n      == FitCount(c0, 0, w)
        line1  == SubSeq(c0, 1, n)
        c1     == SubSeq(c0, n + 1, Len(c0))
        len1   == Len(Concat(line1))
        long   == c1 # <<>> /\ Len(c1[1]) > w
        cut    == IF long THEN LongWordCut(c1[1], len1, w) ELSE 0
        line2  == IF long THEN Append(line1, Slice(c1[1], 0, cut)) ELSE line1
        c2     == IF long THEN <<Slice(c1[1], cut, Len(c1[1]))>> \o Tail(c1) ELSE c1
        line3  == IF line2 # <<>> /\ IsBlank(line2[Len(line2)])
                  THEN SubSeq(line2, 1, Len(line2) - 1) ELSE line2
        lines1 == IF line3 # <<>> THEN Append(lines, indent \o Concat(line3)) ELSE lines
    IN  wrap_chunks(c2, lines1, width, initial_indent, subsequent_indent)

\* textwrap.wrap(text, width=width, initial_indent=..., subsequent_indent=...)
wrap(text, width, initial_indent, subsequent_indent) ==
    wrap_chunks(split_chunks(text), <<>>, width, initial_indent, subsequent_indent)

\* ------------------------------------------------------------ the terminal

\* the style the terminal draws with: colorama's codes change it, and it stays
\* as it is until another code changes it
DefaultStyle == [bright |-> FALSE, fore |-> "default"]

ApplyCode(st, tok) ==
    IF tok = STYLE_BRIGHT THEN [st EXCEPT !.bright = TRUE]
    ELSE IF tok = STYLE_RESET_ALL THEN DefaultStyle
    ELSE IF tok = FORE_CYAN THEN [st EXCEPT !.fore = "cyan"]
    ELSE IF tok = FORE_GREEN THEN [st EXCEPT !.fore = "green"]
    ELSE IF tok = FORE_RESET THEN [st EXCEPT !.fore = "default"]
    ELSE st

RECURSIVE ApplyCodes(_, _)
\* the style after the codes of the sequence, in their order
ApplyCodes(st, codes) ==
    IF codes = <<>> THEN st ELSE ApplyCodes(ApplyCode(st, Head(codes)), Tail(codes))

\* the terminal's style after the first n tokens of line, starting in style st:
\* only the codes among them change it
StyleAfter(st, line, n) ==
    ApplyCodes(st, SelectSeq(SubSeq(line, 1, n), LAMBDA tok : tok \in StyleCodes))

\* the printable characters of a line: what is left once the codes are removed
Visible(line) == SelectSeq(line, LAMBDA tok : tok \notin StyleCodes)

\* ------------------------------------------------------------ inputs

MaxWords == 3

ShortWord == 5

MidWord == 40

LongWord == 89

WordLens == {ShortWord, MidWord, LongWord}

Seps == {<<SP>>, <<SP, NL>>, <<"-">>, <<"-", "-">>}

RECURSIVE Phrase(_, _, _)
\* n words of len letters each, joined by sep
Phrase(n, len, sep) ==
    IF n = 0 THEN <<>>
    ELSE IF n = 1 THEN Rep("a", len)
    ELSE Phrase(n - 1, len, sep) \o sep \o Rep("a", len)

\* texts at the edges of textwrap: whitespace only, whitespace around and doubled
\* between words, one word of exactly the room of a line (W, and W - 4 after the
\* indent), a long word after a nearly full line, a hyphenated word at a line's end
SpecialTexts ==
    {<<SP, SP>>,
     <<SP>> \o Rep("a", ShortWord) \o <<SP, SP>> \o Rep("a", ShortWord) \o <<SP>>,
     Rep("a", MAX_LINE_LENGTH),
     Rep("a", MAX_LINE_LENGTH - 4),
     Rep("a", MAX_LINE_LENGTH - 1) \o <<SP>> \o Rep("a", LongWord),
     Rep("a", MidWord) \o <<"-">> \o Rep("a", MidWord) \o <<SP>> \o Rep("a", MidWord)}

Texts ==
    {Phrase(n, len, sep) : n \in 0..MaxWords, len \in WordLens, sep \in Seps}
    \cup SpecialTexts

DefaultName == <<"S","t","a","r","l","i","n","k",SP,"6","-","1","0">>

DefaultLocation == <<"C","a","p","e",SP,"C","a","n","a","v","e","r","a","l">>

DefaultType == <<"C","o","m","m","s">>

DefaultDescription == Phrase(MaxWords, MidWord, <<SP>>)

UTC == <<"U","T","C">>

DefaultDate == [year |-> 2023, month |-> 11, day |-> 1, hour |-> 14, minute |-> 0, tzname |-> UTC]

Dates ==
    {DefaultDate,
     [year |-> 2020, month |-> 9, day |-> 5, hour |-> 0, minute |-> 7, tzname |-> <<>>],
     [year |-> 2024, month |-> 2, day |-> 29, hour |-> 12, minute |-> 30, tzname |-> UTC]}

DefaultRocket ==
    [name |-> <<"F","a","l","c","o","n",SP,"9">>,
     payload_leo |-> 22800, payload_gto |-> 8300,
     liftoff_thrust |-> 7607, liftoff_mass |-> 549,
     max_stages |-> 2, height |-> 70,
     successful_launches |-> 300, consecutive_successful_launches |-> 250,
     failed_launches |-> 1,
     maiden_flight_date |-> [year |-> 2010, month |-> 6, day |-> 4]]

DefaultEvent ==
    [mission_name |-> DefaultName, location |-> DefaultLocation,
     mission_date |-> DefaultDate, mission_description |-> DefaultDescription,
     mission_type |-> DefaultType]

\* records that differ in the texts textwrap wraps
WrapEvents ==
    {[DefaultEvent EXCEPT !.mission_name = t, !.mission_description = t] : t \in Texts}

\* records that differ in the fields printed on one line each
LineEvents ==
    {[DefaultEvent EXCEPT !.location = Rep("b", n), !.mission_type = Rep("c", k)] :
        n \in {0, MAX_LINE_LENGTH, LongWord}, k \in {ShortWord, LongWord}}
    \cup {[DefaultEvent EXCEPT !.mission_date = d] : d \in Dates}

Events == {DefaultEvent} \cup WrapEvents \cup LineEvents

\* rockets that differ in the name or in the numbers of the longest cells
Rockets ==
    {DefaultRocket}
    \cup {[DefaultRocket EXCEPT !.name = Rep("r", n)] :
            n \in {0, CHART_WIDTH, CHART_WIDTH + 1, LongWord}}
    \cup {[DefaultRocket EXCEPT !.liftoff_mass = m,
                                !.consecutive_successful_launches = c] :
            m \in {549, 123456789, 2147483647}, c \in {250, 1000000}}

\* ------------------------------------------------------------ state

VARIABLES
    event,                      \* the Event object
    launch,                     \* the Launch object (with its .rocket)
    self,                       \* the class whose display() is running
    verbosity,                  \* display()'s argument
    pc,                         \* the statement display() is at
    ret,                        \* where Rocket.display returns to
    mission_name_lines,         \* local of Event.display / Launch.display
    mission_description_lines,  \* local of Event.display / Launch.display
    i,                          \* index of the running for loop (1-based)
    out,                        \* the lines printed by the running call
    style,                      \* the terminal's style
    prev                        \* the previous call: its class, verbosity and lines

vars == <<event, launch, self, verbosity, pc, ret, mission_name_lines,
          mission_description_lines, i, out, style, prev>>

objects == <<event, launch>>

locals == <<mission_name_lines, mission_description_lines, i>>

NoCall == [self |-> "none", verbosity |-> NORMAL, out |-> <<>>]

\* Event.__init__, Launch.__init__, Rocket.__init__: the Event and the Launch are
\* built from the same five values
Init ==
    /\ \E e \in Events, r \in Rockets :
          /\ e = DefaultEvent \/ r = DefaultRocket
          /\ event = e
          /\ launch = [mission_name |-> e.mission_name, location |-> e.location,
                       mission_date |-> e.mission_date,
                       mission_description |-> e.mission_description,
                       mission_type |-> e.mission_type, rocket |-> r]
    /\ self = "none"
    /\ verbosity = NORMAL
    /\ pc = "idle"
    /\ ret = "top"
    /\ mission_name_lines = <<>>
    /\ mission_description_lines = <<>>
    /\ i = 0
    /\ out = <<>>
    /\ style = DefaultStyle
    /\ prev = NoCall

\* print(line): the line goes to the terminal, which draws its first and last
\* glyph in the style it has when it gets there
print(kind, line) ==
    /\ out' = Append(out, [kind  |-> kind,
                           text  |-> line,
                           left  |-> StyleAfter(style, line, 1),
                           right |-> StyleAfter(style, line, Len(line))])
    /\ style' = StyleAfter(style, line, Len(line))

\* FILLER = BOX_V + " " * MAX_LINE_LENGTH + BOX_V
FILLER == <<BOX_V>> \o Rep(SP, MAX_LINE_LENGTH) \o <<BOX_V>>

INDENT == <<SP, SP, SP, SP>>

\* a caller calls display() on the Event or the Launch, or display() on the rocket;
\* the new activation starts with its locals unset, and `prev` keeps what the call
\* before it printed
Call(cls, v) ==
    /\ pc \in {"idle", "done"}
    /\ prev' = IF pc = "done" THEN [self |-> self, verbosity |-> verbosity, out |-> out]
               ELSE prev
    /\ self' = cls
    /\ verbosity' = v
    /\ pc' = IF cls = "Event" THEN "E41" ELSE IF cls = "Launch" THEN "L90" ELSE "R161"
    /\ ret' = "top"
    /\ out' = <<>>
    /\ mission_name_lines' = <<>>
    /\ mission_description_lines' = <<>>
    /\ i' = 0
    /\ UNCHANGED <<objects, style>>

\* ------------------------------------------------------------ Event.display

\* line 41: mission_name_lines = t.wrap(self.mission_name, width=MAX_LINE_LENGTH)
EventWrapName ==
    /\ pc = "E41"
    /\ mission_name_lines' = wrap(event.mission_name, MAX_LINE_LENGTH, <<>>, <<>>)
    /\ i' = 1
    /\ pc' = "E42"
    /\ UNCHANGED <<objects, self, verbosity, ret, mission_description_lines, out, style, prev>>

\* fault: the name line ends with Fore.RESET, which leaves Style.BRIGHT on
EventNameLine_ForeReset(line) ==
    <<BOX_V, STYLE_BRIGHT, FORE_CYAN>> \o ljust(line, MAX_LINE_LENGTH)
        \o <<FORE_RESET, BOX_V>>

EventNameLine(line) ==
    <<BOX_V, STYLE_BRIGHT, FORE_CYAN>> \o ljust(line, MAX_LINE_LENGTH)
        \o <<STYLE_RESET_ALL, BOX_V>>

\* lines 42-43: one pass of the for loop over mission_name_lines
EventPrintName ==
    /\ pc = "E42"
    /\ i <= Len(mission_name_lines)
    /\ print("name", EventNameLine(mission_name_lines[i]))
    /\ i' = i + 1
    /\ UNCHANGED <<objects, self, verbosity, pc, ret, mission_name_lines,
                   mission_description_lines, prev>>

EventLocationLine ==
    <<BOX_V, FORE_CYAN>> \o ljust(event.location, MAX_LINE_LENGTH) \o <<FORE_RESET, BOX_V>>

\* fault: the location is padded in place, the Event's field is overwritten
EventPrintLocation_PadsField ==
    /\ pc = "E42"
    /\ i > Len(mission_name_lines)
    /\ print("location", EventLocationLine)
    /\ event' = [event EXCEPT !.location = ljust(event.location, MAX_LINE_LENGTH)]
    /\ pc' = "E50"
    /\ UNCHANGED <<launch, self, verbosity, ret, locals, prev>>

\* line 46, reached when the for loop is over
EventPrintLocation ==
    /\ pc = "E42"
    /\ i > Len(mission_name_lines)
    /\ print("location", EventLocationLine)
    /\ pc' = "E50"
    /\ UNCHANGED <<objects, self, verbosity, ret, locals, prev>>

\* line 50
EventPrintFiller ==
    /\ pc = "E50"
    /\ print("filler", FILLER)
    /\ pc' = "E53"
    /\ UNCHANGED <<objects, self, verbosity, ret, locals, prev>>

EventDateLine ==
    <<BOX_V, FORE_GREEN>>
        \o ljust(INDENT \o strftime_DATE_FMAT_STR(event.mission_date), MAX_LINE_LENGTH)
        \o <<FORE_RESET, BOX_V>>

\* lines 53-59
EventPrintDate ==
    /\ pc = "E53"
    /\ print("date", EventDateLine)
    /\ pc' = "E62"
    /\ UNCHANGED <<objects, self, verbosity, ret, locals, prev>>

EventTypeLabel == INDENT \o <<"E","v","e","n","t", SP, "T","y","p","e",":", SP>>

EventTypeLine ==
    <<BOX_V>> \o ljust(EventTypeLabel \o event.mission_type, MAX_LINE_LENGTH) \o <<BOX_V>>

\* line 62
EventPrintType ==
    /\ pc = "E62"
    /\ print("type", EventTypeLine)
    /\ pc' = "E65"
    /\ UNCHANGED <<objects, self, verbosity, ret, locals, prev>>

\* line 65, verbosity == QUIET: display() returns
EventReturnQuiet ==
    /\ pc = "E65"
    /\ verbosity = QUIET
    /\ pc' = "done"
    /\ UNCHANGED <<objects, self, verbosity, ret, locals, out, style, prev>>

\* fault: the test of the verbosity is left out, the description block is printed
\* at QUIET too
EventPrintDescriptionFiller_AnyVerbosity ==
    /\ pc = "E65"
    /\ print("filler", FILLER)
    /\ pc' = "E68"
    /\ UNCHANGED <<objects, self, verbosity, ret, locals, prev>>

\* lines 65-66, verbosity != QUIET
EventPrintDescriptionFiller ==
    /\ pc = "E65"
    /\ verbosity # QUIET
    /\ print("filler", FILLER)
    /\ pc' = "E68"
    /\ UNCHANGED <<objects, self, verbosity, ret, locals, prev>>

\* fault: the text is wrapped at the full width and the indent added afterwards
EventWrapDescription_IndentAfter ==
    /\ pc = "E68"
    /\ mission_description_lines' =
          LET ls == wrap(event.mission_description, MAX_LINE_LENGTH, <<>>, <<>>)
          IN  [k \in 1..Len(ls) |-> INDENT \o ls[k]]
    /\ i' = 1
    /\ pc' = "E71"
    /\ UNCHANGED <<objects, self, verbosity, ret, mission_name_lines, out, style, prev>>

\* lines 68-70
EventWrapDescription ==
    /\ pc = "E68"
    /\ mission_description_lines' =
          wrap(event.mission_description, MAX_LINE_LENGTH, INDENT, INDENT)
    /\ i' = 1
    /\ pc' = "E71"
    /\ UNCHANGED <<objects, self, verbosity, ret, mission_name_lines, out, style, prev>>

EventDescriptionLine(line) == <<BOX_V>> \o ljust(line, MAX_LINE_LENGTH) \o <<BOX_V>>

\* lines 71-72: one pass of the for loop over mission_description_lines
EventPrintDescription ==
    /\ pc = "E71"
    /\ i <= Len(mission_description_lines)
    /\ print("description", EventDescriptionLine(mission_description_lines[i]))
    /\ i' = i + 1
    /\ UNCHANGED <<objects, self, verbosity, pc, ret, mission_name_lines,
                   mission_description_lines, prev>>

\* the for loop is over: display() returns
EventReturn ==
    /\ pc = "E71"
    /\ i > Len(mission_description_lines)
    /\ pc' = "done"
    /\ UNCHANGED <<objects, self, verbosity, ret, locals, out, style, prev>>

\* ------------------------------------------------------------ Launch.display

\* line 90: mission_name_lines = t.wrap(self.mission_name, width=MAX_LINE_LENGTH)
LaunchWrapName ==
    /\ pc = "L90"
    /\ mission_name_lines' = wrap(launch.mission_name, MAX_LINE_LENGTH, <<>>, <<>>)
    /\ i' = 1
    /\ pc' = "L91"
    /\ UNCHANGED <<objects, self, verbosity, ret, mission_description_lines, out, style, prev>>

LaunchNameLine(line) ==
    <<BOX_V, STYLE_BRIGHT, FORE_CYAN>> \o ljust(line, MAX_LINE_LENGTH)
        \o <<STYLE_RESET_ALL, BOX_V>>

\* lines 91-92: one pass of the for loop over mission_name_lines
LaunchPrintName ==
    /\ pc = "L91"
    /\ i <= Len(mission_name_lines)
    /\ print("name", LaunchNameLine(mission_name_lines[i]))
    /\ i' = i + 1
    /\ UNCHANGED <<objects, self, verbosity, pc, ret, mission_name_lines,
                   mission_description_lines, prev>>

LaunchLocationLine ==
    <<BOX_V, FORE_CYAN>> \o ljust(launch.location, MAX_LINE_LENGTH) \o <<FORE_RESET, BOX_V>>

\* line 95, reached when the for loop is over
LaunchPrintLocation ==
    /\ pc = "L91"
    /\ i > Len(mission_name_lines)
    /\ print("location", LaunchLocationLine)
    /\ pc' = "L99"
    /\ UNCHANGED <<objects, self, verbosity, ret, locals, prev>>

\* line 99
LaunchPrintFiller ==
    /\ pc = "L99"
    /\ print("filler", FILLER)
    /\ pc' = "L102"
    /\ UNCHANGED <<objects, self, verbosity, ret, locals, prev>>

LaunchDateLine ==
    <<BOX_V, FORE_GREEN>>
        \o ljust(INDENT \o strftime_DATE_FMAT_STR(launch.mission_date), MAX_LINE_LENGTH)
        \o <<FORE_RESET, BOX_V>>

\* lines 102-108
LaunchPrintDate ==
    /\ pc = "L102"
    /\ print("date", LaunchDateLine)
    /\ pc' = "L111"
    /\ UNCHANGED <<objects, self, verbosity, ret, locals, prev>>

\* fault: Launch.display prints the label of Event.display
LaunchTypeLabel_Event == INDENT \o <<"E","v","e","n","t", SP, "T","y","p","e",":", SP>>

LaunchTypeLabel == INDENT \o <<"L","a","u","n","c","h", SP, "T","y","p","e",":", SP>>

LaunchTypeLine ==
    <<BOX_V>> \o ljust(LaunchTypeLabel \o launch.mission_type, MAX_LINE_LENGTH) \o <<BOX_V>>

\* line 111
LaunchPrintType ==
    /\ pc = "L111"
    /\ print("type", LaunchTypeLine)
    /\ pc' = "L114"
    /\ UNCHANGED <<objects, self, verbosity, ret, locals, prev>>

\* line 114, verbosity == QUIET: display() returns
LaunchReturnQuiet ==
    /\ pc = "L114"
    /\ verbosity = QUIET
    /\ pc' = "done"
    /\ UNCHANGED <<objects, self, verbosity, ret, locals, out, style, prev>>

\* lines 114-117, verbosity == VERBOSE
LaunchPrintRocketFiller ==
    /\ pc = "L114"
    /\ verbosity # QUIET
    /\ verbosity = VERBOSE
    /\ print("filler", FILLER)
    /\ pc' = "L118"
    /\ UNCHANGED <<objects, self, verbosity, ret, locals, prev>>

\* line 118: self.rocket.display()
LaunchCallRocket ==
    /\ pc = "L118"
    /\ pc' = "R161"
    /\ ret' = "L120"
    /\ UNCHANGED <<objects, self, verbosity, locals, out, style, prev>>

\* fault: the description block is printed at NORMAL only, and display() returns
\* right after the rocket's panel
LaunchPrintDescriptionFiller_NormalOnly ==
    \/ /\ pc = "L114" /\ verbosity = NORMAL
       /\ print("filler", FILLER)
       /\ pc' = "L121"
       /\ UNCHANGED <<objects, self, verbosity, ret, locals, prev>>
    \/ /\ pc = "L120"
       /\ pc' = "done"
       /\ UNCHANGED <<objects, self, verbosity, ret, locals, out, style, prev>>

\* line 120, after the rocket's panel or at once when verbosity is NORMAL
LaunchPrintDescriptionFiller ==
    /\ \/ pc = "L114" /\ verbosity # QUIET /\ verbosity # VERBOSE
       \/ pc = "L120"
    /\ print("filler", FILLER)
    /\ pc' = "L121"
    /\ UNCHANGED <<objects, self, verbosity, ret, locals, prev>>

\* lines 121-123
LaunchWrapDescription ==
    /\ pc = "L121"
    /\ mission_description_lines' =
          wrap(launch.mission_description, MAX_LINE_LENGTH, INDENT, INDENT)
    /\ i' = 1
    /\ pc' = "L124"
    /\ UNCHANGED <<objects, self, verbosity, ret, mission_name_lines, out, style, prev>>

LaunchDescriptionLine(line) == <<BOX_V>> \o ljust(line, MAX_LINE_LENGTH) \o <<BOX_V>>

\* lines 124-125: one pass of the for loop over mission_description_lines
LaunchPrintDescription ==
    /\ pc = "L124"
    /\ i <= Len(mission_description_lines)
    /\ print("description", LaunchDescriptionLine(mission_description_lines[i]))
    /\ i' = i + 1
    /\ UNCHANGED <<objects, self, verbosity, pc, ret, mission_name_lines,
                   mission_description_lines, prev>>

\* the for loop is over: display() returns
LaunchReturn ==
    /\ pc = "L124"
    /\ i > Len(mission_description_lines)
    /\ pc' = "done"
    /\ UNCHANGED <<objects, self, verbosity, ret, locals, out, style, prev>>

\* ------------------------------------------------------------ Rocket.display

\* fault: the half-width is rounded up, each cell is 30 wide
generate_chart_line_RoundUp(left, right) ==
    LET row == center(left, (CHART_WIDTH + 1) \div 2) \o <<BOX_V>>
               \o center(right, (CHART_WIDTH + 1) \div 2)
    IN  <<BOX_V>>
        \o center(<<BOX_V>> \o center(row, CHART_WIDTH) \o <<BOX_V>>, MAX_LINE_LENGTH)
        \o <<BOX_V>>

\* Rocket._generate_chart_line(left, right)
generate_chart_line(left, right) ==
    LET row == center(left, CHART_WIDTH \div 2) \o <<BOX_V>>
               \o center(right, CHART_WIDTH \div 2)
    IN  <<BOX_V>>
        \o center(<<BOX_V>> \o center(row, CHART_WIDTH) \o <<BOX_V>>, MAX_LINE_LENGTH)
        \o <<BOX_V>>

\* line 159
INTER_CELL_DIVIDER ==
    <<BOX_V>>
    \o center(<<BOX_VR>> \o Rep(BOX_H, CHART_WIDTH) \o <<BOX_VL>>, MAX_LINE_LENGTH)
    \o <<BOX_V>>

\* line 161
RocketTopLine ==
    <<BOX_V>>
    \o center(<<BOX_DR>> \o Rep(BOX_H, CHART_WIDTH) \o <<BOX_DL>>, MAX_LINE_LENGTH)
    \o <<BOX_V>>

\* line 162
RocketTitleLine(r) ==
    <<BOX_V>>
    \o center(<<BOX_V>> \o center(r.name, CHART_WIDTH) \o <<BOX_V>>, MAX_LINE_LENGTH)
    \o <<BOX_V>>

\* line 191
RocketBottomLine ==
    <<BOX_V>>
    \o center(<<BOX_UR>> \o Rep(BOX_H, CHART_WIDTH) \o <<BOX_UL>>, MAX_LINE_LENGTH)
    \o <<BOX_V>>

\* the left argument of the k-th _generate_chart_line call (lines 164-188)
RowLeft(r, k) ==
    CASE k = 1 -> <<"H","e","i","g","h","t",":",SP>> \o str(r.height) \o <<SP,"m">>
      [] k = 2 -> <<"M","a","x",SP,"S","t","a","g","e","s",SP>> \o str(r.max_stages)
      [] k = 3 -> <<"M","a","s","s",SP,"t","o",SP,"G","T","O",":",SP>>
                  \o str(r.payload_gto) \o <<SP,"k","g">>
      [] k = 4 -> <<"L","a","u","n","c","h",SP,"S","u","c","c","e","s","s","e","s",":",SP>>
                  \o str(r.successful_launches)
      [] k = 5 -> <<"C","o","n","s","e","c","u","t","i","v","e",SP,
                    "S","u","c","c","e","s","s","e","s",":",SP>>
                  \o str(r.consecutive_successful_launches)

\* fault: the right cells of rows 1 and 2 are exchanged
RowRight_Swapped(r, k) ==
    CASE k = 2 -> <<"M","a","s","s",SP,"t","o",SP,"L","E","O",":",SP>>
                  \o str(r.payload_leo) \o <<SP,"k","g">>
      [] k = 1 -> <<"L","i","f","t","o","f","f",SP,"T","h","r","u","s","t",":",SP>>
                  \o str(r.liftoff_thrust) \o <<SP,"k","N">>
      [] k = 3 -> <<"L","i","f","t","o","f","f",SP,"M","a","s","s",":",SP>>
                  \o str(r.liftoff_mass) \o <<SP,"T","o","n","n","e","s">>
      [] k = 4 -> <<"M","a","i","d","e","n",SP,"F","l","i","g","h","t",":",SP>>
                  \o strftime_Ymd(r.maiden_flight_date)
      [] k = 5 -> <<"F","a","i","l","e","d",SP,"L","a","u","n","c","h","e","s",":",SP>>
                  \o str(r.failed_launches)

\* the right argument of the k-th _generate_chart_line call (lines 164-188)
RowRight(r, k) ==
    CASE k = 1 -> <<"M","a","s","s",SP,"t","o",SP,"L","E","O",":",SP>>
                  \o str(r.payload_leo) \o <<SP,"k","g">>
      [] k = 2 -> <<"L","i","f","t","o","f","f",SP,"T","h","r","u","s","t",":",SP>>
                  \o str(r.liftoff_thrust) \o <<SP,"k","N">>
      [] k = 3 -> <<"L","i","f","t","o","f","f",SP,"M","a","s","s",":",SP>>
                  \o str(r.liftoff_mass) \o <<SP,"T","o","n","n","e","s">>
      [] k = 4 -> <<"M","a","i","d","e","n",SP,"F","l","i","g","h","t",":",SP>>
                  \o strftime_Ymd(r.maiden_flight_date)
      [] k = 5 -> <<"F","a","i","l","e","d",SP,"L","a","u","n","c","h","e","s",":",SP>>
                  \o str(r.failed_launches)

\* the print statements of Rocket.display in the order of the source, by line
RocketPcs ==
    <<"R161", "R162", "R163", "R164", "R165", "R166", "R171", "R172",
      "R177", "R178", "R184", "R185", "R191", "Rend">>

DividerPcs == {"R163", "R165", "R171", "R177", "R184"}

RowPcs == <<"R164", "R166", "R172", "R178", "R185">>

\* fault: the divider between the first two data rows is left out
NextPc_SkipDivider(p) ==
    IF p = "R164" THEN "R166"
    ELSE RocketPcs[(CHOOSE n \in 1..Len(RocketPcs) : RocketPcs[n] = p) + 1]

\* the statement after the one at p
NextPc(p) == RocketPcs[(CHOOSE n \in 1..Len(RocketPcs) : RocketPcs[n] = p) + 1]

\* line 161
RocketPrintTop ==
    /\ pc = "R161"
    /\ print("rocket_top", RocketTopLine)
    /\ pc' = NextPc(pc)
    /\ UNCHANGED <<objects, self, verbosity, ret, locals, prev>>

\* line 162
RocketPrintTitle ==
    /\ pc = "R162"
    /\ print("rocket_title", RocketTitleLine(launch.rocket))
    /\ pc' = NextPc(pc)
    /\ UNCHANGED <<objects, self, verbosity, ret, locals, prev>>

\* lines 163, 165, 171, 177, 184: print(INTER_CELL_DIVIDER)
RocketPrintDivider ==
    /\ pc \in DividerPcs
    /\ print("rocket_divider", INTER_CELL_DIVIDER)
    /\ pc' = NextPc(pc)
    /\ UNCHANGED <<objects, self, verbosity, ret, locals, prev>>

\* lines 164, 166, 172, 178, 185: print(self._generate_chart_line(left, right))
RocketPrintRow(k) ==
    /\ pc = RowPcs[k]
    /\ print("rocket_row",
             generate_chart_line(RowLeft(launch.rocket, k), RowRight(launch.rocket, k)))
    /\ pc' = NextPc(pc)
    /\ UNCHANGED <<objects, self, verbosity, ret, locals, prev>>

\* line 191
RocketPrintBottom ==
    /\ pc = "R191"
    /\ print("rocket_bottom", RocketBottomLine)
    /\ pc' = NextPc(pc)
    /\ UNCHANGED <<objects, self, verbosity, ret, locals, prev>>

\* Rocket.display returns: to Launch.display (line 120) or to the caller
RocketReturn ==
    /\ pc = "Rend"
    /\ pc' = IF ret = "top" THEN "done" ELSE ret
    /\ ret' = "top"
    /\ UNCHANGED <<objects, self, verbosity, locals, out, style, prev>>

\* ------------------------------------------------------------ specification

CallEvent == \E v \in Verbosity : Call("Event", v)

CallLaunch == \E v \in Verbosity : Call("Launch", v)

\* Rocket.display() takes no verbosity
CallRocket == Call("Rocket", verbosity)

Next ==
    \/ CallEvent
    \/ CallLaunch
    \/ CallRocket
    \/ EventWrapName
    \/ EventPrintName
    \/ EventPrintLocation
    \/ EventPrintFiller
    \/ EventPrintDate
    \/ EventPrintType
    \/ EventReturnQuiet
    \/ EventPrintDescriptionFiller
    \/ EventWrapDescription
    \/ EventPrintDescription
    \/ EventReturn
    \/ LaunchWrapName
    \/ LaunchPrintName
    \/ LaunchPrintLocation
    \/ LaunchPrintFiller
    \/ LaunchPrintDate
    \/ LaunchPrintType
    \/ LaunchReturnQuiet
    \/ LaunchPrintRocketFiller
    \/ LaunchCallRocket
    \/ LaunchPrintDescriptionFiller
    \/ LaunchWrapDescription
    \/ LaunchPrintDescription
    \/ LaunchReturn
    \/ RocketPrintTop
    \/ RocketPrintTitle
    \/ RocketPrintDivider
    \/ \E k \in 1..5 : RocketPrintRow(k)
    \/ RocketPrintBottom
    \/ RocketReturn

Spec == Init /\ [][Next]_vars

\* ------------------------------------------------------------ reading the output

\* what lies between the two border glyphs of a line, codes removed
Interior(line) == LET v == Visible(line) IN SubSeq(v, 2, Len(v) - 1)

\* the line starts with a border glyph and ends with one
HasBorders(line) ==
    /\ Len(line) >= 2
    /\ line[1] = BOX_V
    /\ line[Len(line)] = BOX_V

MaxOf(a, b) == IF a >= b THEN a ELSE b

\* the kinds of the lines of o, in order
Kinds(o) == [k \in 1..Len(o) |-> o[k].kind]

\* how many lines of o are of a kind in K
Count(o, K) == Cardinality({k \in 1..Len(o) : o[k].kind \in K})

\* the positions of token g in line, in increasing order
Positions(line, g) ==
    SelectSeq([k \in 1..Len(line) |-> k], LAMBDA k : line[k] = g)

RocketKinds == {"rocket_top", "rocket_title", "rocket_divider", "rocket_row", "rocket_bottom"}

RuleKinds == {"rocket_top", "rocket_divider", "rocket_bottom"}

\* a top-level call has returned: out holds all it printed
Done(cls) == pc = "done" /\ self = cls

\* ------------------------------------------------------------ C1

\* which data row of the panel the k-th line of o is
RowNumber(o, k) == Cardinality({j \in 1..k : o[j].kind = "rocket_row"})

\* the length of what line k of o holds before ljust / the outer center pads it
ContentLen(o, k) ==
    LET kind == o[k].kind
        r    == launch.rocket
        half == CHART_WIDTH \div 2
    IN  CASE kind = "location" -> Len(event.location)
          [] kind = "date" -> Len(INDENT) + Len(strftime_DATE_FMAT_STR(event.mission_date))
          [] kind = "type" ->
                (IF self = "Event" THEN Len(EventTypeLabel) ELSE Len(LaunchTypeLabel))
                + Len(event.mission_type)
          [] kind = "rocket_title" -> MaxOf(CHART_WIDTH, Len(r.name)) + 2
          [] kind = "rocket_row" ->
                LET n == RowNumber(o, k)
                IN  MaxOf(CHART_WIDTH,
                          MaxOf(half, Len(RowLeft(r, n))) + 1
                          + MaxOf(half, Len(RowRight(r, n)))) + 2
          [] OTHER -> 0

\* C1 as claimed: every emitted line is a border glyph, exactly W = 88 printable
\* characters, and a border glyph, whatever the field values.
C1_EveryLineExactlyW ==
    \A k \in 1..Len(out) :
        /\ HasBorders(out[k].text)
        /\ Len(Interior(out[k].text)) = MAX_LINE_LENGTH

\* C1 amended: every emitted line has both border glyphs and an interior of at
\* least W printable characters; the interior is exactly W on every name, filler,
\* description and rule line, and on a location, date, type, title or data-row
\* line it is W when the unpadded content fits in W and the content's own length
\* when it does not (ljust and center never truncate).
C1_LineWidth ==
    \A k \in 1..Len(out) :
        /\ HasBorders(out[k].text)
        /\ Len(Interior(out[k].text)) = MaxOf(MAX_LINE_LENGTH, ContentLen(out, k))

\* a location longer than W has been printed
C1_Witness ==
    /\ pc = "done"
    /\ \E k \in 1..Len(out) :
          /\ out[k].kind = "location"
          /\ Len(Interior(out[k].text)) > MAX_LINE_LENGTH
    /\ \E k \in 1..Len(out) :
          /\ out[k].kind = "description"
          /\ Len(Interior(out[k].text)) = MAX_LINE_LENGTH

\* ------------------------------------------------------------ C3

\* C3 as claimed: Rocket.display emits exactly 12 lines.
C3_TwelveLines == Done("Rocket") => Len(out) = 12

\* the position of the type line in o
TypeAt(o) == CHOOSE k \in 1..Len(o) : o[k].kind = "type"

\* C3 amended: Rocket.display always emits exactly 13 lines (5 data rows + 7 rules
\* + 1 title), whatever the rocket's field values; a Launch displayed at VERBOSE has
\* exactly one filler line and then exactly 13 rocket-panel lines between its type
\* line and its filler + description block.
C3_ThirteenLines ==
    /\ Done("Rocket") =>
          /\ Len(out) = 13
          /\ Count(out, {"rocket_row"}) = 5
          /\ Count(out, RuleKinds) = 7
          /\ Count(out, {"rocket_title"}) = 1
    /\ Done("Launch") /\ verbosity = VERBOSE =>
          LET t == TypeAt(out)
          IN  /\ Count(out, {"type"}) = 1
              /\ Count(out, RocketKinds) = 13
              /\ Len(out) >= t + 15
              /\ out[t + 1].kind = "filler"
              /\ \A k \in (t + 2)..(t + 14) : out[k].kind \in RocketKinds
              /\ out[t + 15].kind = "filler"
              /\ \A k \in (t + 16)..Len(out) : out[k].kind = "description"

\* a Launch has been displayed at VERBOSE, with a rocket whose cells are long
C3_Witness ==
    /\ Done("Launch")
    /\ verbosity = VERBOSE
    /\ Len(RowRight(launch.rocket, 3)) > CHART_WIDTH \div 2
    /\ Count(out, {"description"}) >= 2

\* ------------------------------------------------------------ C7

\* C7: in every line Event.display and Launch.display emit, both border glyphs are
\* drawn in the default style, and after every line the terminal's style is the
\* default again.
C7_NoStyleLeak ==
    /\ style = DefaultStyle
    /\ \A k \in 1..Len(out) :
          /\ HasBorders(out[k].text)
          /\ out[k].left = DefaultStyle
          /\ out[k].right = DefaultStyle

\* a name line, a location line and a date line, each with its codes, were printed
C7_Witness ==
    /\ pc = "done"
    /\ self \in {"Event", "Launch"}
    /\ \E k \in 1..Len(out) :
          /\ out[k].kind = "name"
          /\ StyleAfter(DefaultStyle, out[k].text, 3) = [bright |-> TRUE, fore |-> "cyan"]
    /\ \E k \in 1..Len(out) :
          /\ out[k].kind = "location"
          /\ StyleAfter(DefaultStyle, out[k].text, 2).fore = "cyan"
    /\ \E k \in 1..Len(out) :
          /\ out[k].kind = "date"
          /\ StyleAfter(DefaultStyle, out[k].text, 2).fore = "green"

\* ------------------------------------------------------------ C8

\* the 13 lines of the panel, by kind
PanelKinds ==
    <<"rocket_top", "rocket_title", "rocket_divider",
      "rocket_row", "rocket_divider", "rocket_row", "rocket_divider",
      "rocket_row", "rocket_divider", "rocket_row", "rocket_divider",
      "rocket_row", "rocket_bottom">>

\* what rows 1..5 are said to carry, left and right
RowLabels ==
    << <<<<"H","e","i","g","h","t">>,
         <<"M","a","s","s",SP,"t","o",SP,"L","E","O">>>>,
       <<<<"M","a","x",SP,"S","t","a","g","e","s">>,
         <<"L","i","f","t","o","f","f",SP,"T","h","r","u","s","t">>>>,
       <<<<"M","a","s","s",SP,"t","o",SP,"G","T","O">>,
         <<"L","i","f","t","o","f","f",SP,"M","a","s","s">>>>,
       <<<<"L","a","u","n","c","h",SP,"S","u","c","c","e","s","s","e","s">>,
         <<"M","a","i","d","e","n",SP,"F","l","i","g","h","t">>>>,
       <<<<"C","o","n","s","e","c","u","t","i","v","e",SP,"S","u","c","c","e","s","s","e","s">>,
         <<"F","a","i","l","e","d",SP,"L","a","u","n","c","h","e","s">>>> >>

\* s without its leading spaces
LStrip(s) ==
    LET ns == {k \in 1..Len(s) : s[k] # SP}
    IN  IF ns = {} THEN <<>> ELSE SubSeq(s, Min(ns), Len(s))

HasPrefix(s, p) == Len(s) >= Len(p) /\ SubSeq(s, 1, Len(p)) = p

\* the two cells of a data row: what lies between the nested box's left border and
\* the cell divider, and between the cell divider and the nested box's right border
LeftCell(line) ==
    LET b == Positions(line, BOX_V) IN SubSeq(line, b[2] + 1, b[3] - 1)

RightCell(line) ==
    LET b == Positions(line, BOX_V) IN SubSeq(line, b[3] + 1, b[4] - 1)

\* o is the panel: the fixed sequence of kinds, the rules with their glyphs, and
\* each data row with its two labels
IsPanel(o) ==
    /\ Kinds(o) = PanelKinds
    /\ HasPrefix(LStrip(Interior(o[1].text)), <<BOX_DR, BOX_H>>)
    /\ HasPrefix(LStrip(Interior(o[13].text)), <<BOX_UR, BOX_H>>)
    /\ \A k \in 1..Len(o) :
          o[k].kind = "rocket_divider" =>
              HasPrefix(LStrip(Interior(o[k].text)), <<BOX_VR, BOX_H>>)
    /\ \A n \in 1..5 :
          LET line == o[2 * n + 2].text
          IN  /\ Len(Positions(line, BOX_V)) = 5
              /\ HasPrefix(LStrip(LeftCell(line)), RowLabels[n][1])
              /\ HasPrefix(LStrip(RightCell(line)), RowLabels[n][2])

\* C8: Rocket.display emits top rule, title row, divider, row1, divider, row2,
\* divider, row3, divider, row4, divider, row5, bottom rule, in this order at every
\* step and whatever the field values, the rows carrying Height | Mass to LEO,
\* Max Stages | Liftoff Thrust, Mass to GTO | Liftoff Mass, Launch Successes |
\* Maiden Flight, Consecutive Successes | Failed Launches.
C8_PanelSequence ==
    /\ self = "Rocket" =>
          /\ Len(out) <= Len(PanelKinds)
          /\ Kinds(out) = SubSeq(PanelKinds, 1, Len(out))
    /\ Done("Rocket") => IsPanel(out)
    /\ Done("Launch") /\ verbosity = VERBOSE =>
          IsPanel(SubSeq(out, TypeAt(out) + 2, TypeAt(out) + 14))

\* the panel of a rocket with a long number has been printed
C8_Witness ==
    /\ Done("Rocket")
    /\ Len(out) = 13
    /\ Len(RowLeft(launch.rocket, 5)) > CHART_WIDTH \div 2

\* ------------------------------------------------------------ C10

\* the column of the only glyph g of a rule line
ColumnOf(line, g) == Positions(line, g)[1]

\* C10: the rules of the panel put their corner and joint glyphs in the same two
\* columns, C = 59 apart; the title row's borders are in these columns exactly when
\* the name is at most 59 characters, and a data row is 29 + 1 + 29 = 59 wide, with
\* its borders in these columns and its cell divider 30 columns after the left one,
\* exactly when both its cell texts are at most 29 characters: texts are never
\* truncated.
C10_ColumnAlignment ==
    Done("Rocket") =>
        LET l    == ColumnOf(out[1].text, BOX_DR)
            r    == ColumnOf(out[1].text, BOX_DL)
            half == CHART_WIDTH \div 2
            rk   == launch.rocket
        IN  /\ r - l - 1 = CHART_WIDTH
            /\ half + 1 + half = CHART_WIDTH
            /\ \A k \in 1..Len(out) :
                  /\ out[k].kind = "rocket_divider" =>
                        /\ Positions(out[k].text, BOX_VR) = <<l>>
                        /\ Positions(out[k].text, BOX_VL) = <<r>>
                  /\ out[k].kind = "rocket_bottom" =>
                        /\ Positions(out[k].text, BOX_UR) = <<l>>
                        /\ Positions(out[k].text, BOX_UL) = <<r>>
                  /\ out[k].kind = "rocket_title" =>
                        LET b == Positions(out[k].text, BOX_V)
                        IN  (Len(rk.name) <= CHART_WIDTH) <=> (b[2] = l /\ b[3] = r)
                  /\ out[k].kind = "rocket_row" =>
                        LET b == Positions(out[k].text, BOX_V)
                            n == RowNumber(out, k)
                        IN  (Len(RowLeft(rk, n)) <= half /\ Len(RowRight(rk, n)) <= half)
                            <=> (b[2] = l /\ b[3] = l + half + 1 /\ b[4] = r)

\* a panel with an aligned row and a row with a cell text of more than 29 characters
C10_Witness ==
    /\ Done("Rocket")
    /\ Len(launch.rocket.name) <= CHART_WIDTH
    /\ Len(RowLeft(launch.rocket, 1)) <= CHART_WIDTH \div 2
    /\ Len(RowRight(launch.rocket, 1)) <= CHART_WIDTH \div 2
    /\ Len(RowLeft(launch.rocket, 5)) > CHART_WIDTH \div 2
    /\ Positions(out[4].text, BOX_V)[4] = ColumnOf(out[1].text, BOX_DL)
    /\ Positions(out[12].text, BOX_V)[4] # ColumnOf(out[1].text, BOX_DL)

\* ------------------------------------------------------------ C4

\* the type line's text up to the type, as the claims spell it
EVENT_LABEL == INDENT \o <<"E","v","e","n","t",SP,"T","y","p","e",":",SP>>

LAUNCH_LABEL == INDENT \o <<"L","a","u","n","c","h",SP,"T","y","p","e",":",SP>>

\* the kind of the k-th line of an Event's output that has n name lines
ExpectedKind(n, k) ==
    IF k <= n THEN "name"
    ELSE CASE k - n = 1 -> "location"
           [] k - n = 2 -> "filler"
           [] k - n = 3 -> "date"
           [] k - n = 4 -> "type"
           [] k - n = 5 -> "filler"
           [] OTHER -> "description"

\* chunk.strip() != '' for a whole text
NonBlank(text) == \E k \in 1..Len(text) : ~IsSpace(text[k])

\* C4: Event.display emits the wrapped mission_name lines, the location line, one
\* filler line, the date line and the "Event Type: " line, in this order at every
\* step; at QUIET nothing follows (5 lines when the name fits on one line), and at
\* any other verbosity exactly one filler line and the wrapped description lines
\* follow.
C4_EventLineOrder ==
    self = "Event" =>
        LET n == Count(out, {"name"})
        IN  /\ \A k \in 1..Len(out) : out[k].kind = ExpectedKind(n, k)
            /\ verbosity = QUIET => Len(out) <= n + 4
            /\ pc = "done" =>
                  /\ n = Len(mission_name_lines)
                  /\ \A k \in 1..n :
                        HasPrefix(Interior(out[k].text), mission_name_lines[k])
                  /\ HasPrefix(Interior(out[n + 1].text), event.location)
                  /\ Interior(out[n + 2].text) = Rep(SP, MAX_LINE_LENGTH)
                  /\ HasPrefix(Interior(out[n + 4].text), EVENT_LABEL)
                  /\ verbosity = QUIET => Len(out) = n + 4
                  /\ verbosity = QUIET /\ NonBlank(event.mission_name)
                        /\ Len(event.mission_name) <= MAX_LINE_LENGTH
                     => Len(out) = 5
                  /\ verbosity # QUIET =>
                        /\ Len(out) = n + 5 + Len(mission_description_lines)
                        /\ Interior(out[n + 5].text) = Rep(SP, MAX_LINE_LENGTH)
                        /\ \A j \in 1..Len(mission_description_lines) :
                              HasPrefix(Interior(out[n + 5 + j].text),
                                        mission_description_lines[j])

\* an Event with a name of several lines was displayed at QUIET, or one with a name
\* of one line and a description of several lines at another verbosity
C4_Witness ==
    /\ Done("Event")
    /\ \/ verbosity = QUIET /\ Len(out) >= 6
       \/ verbosity = VERBOSE /\ Count(out, {"name"}) = 1
          /\ Count(out, {"description"}) >= 2

\* ------------------------------------------------------------ C2

RECURSIVE IsSubseq(_, _)
\* the lines of a are lines of b, in the same order
IsSubseq(a, b) ==
    IF a = <<>> THEN TRUE
    ELSE IF b = <<>> THEN FALSE
    ELSE IF Head(a) = Head(b) THEN IsSubseq(Tail(a), Tail(b))
    ELSE IsSubseq(a, Tail(b))

\* a is b with at least one line left out, the others in order
IsStrictSubseq(a, b) == IsSubseq(a, b) /\ Len(a) < Len(b)

\* the call that has just returned displayed the record the call before it
\* displayed, with the same method, at verbosity v after verbosity u
Pair(u, v) ==
    /\ pc = "done"
    /\ self \in {"Event", "Launch"}
    /\ prev.self = self
    /\ prev.verbosity = u
    /\ verbosity = v

\* C2 as claimed: for an Event and for a Launch, the lines at QUIET are a strict
\* in-order subset of the lines at NORMAL, and those a strict in-order subset of
\* the lines at VERBOSE.
C2_StrictAtEveryLevel ==
    /\ Pair(QUIET, NORMAL) => IsStrictSubseq(prev.out, out)
    /\ Pair(NORMAL, VERBOSE) => IsStrictSubseq(prev.out, out)

\* C2 amended: the lines at QUIET are a strict in-order subset of the lines at
\* NORMAL, and the lines at NORMAL are an in-order subset of the lines at VERBOSE:
\* a strict one for a Launch, while an Event prints the same lines at NORMAL and at
\* VERBOSE; the type label line is printed once at every level.
C2_VerbosityMonotone ==
    /\ Pair(QUIET, NORMAL) => IsStrictSubseq(prev.out, out)
    /\ Pair(NORMAL, VERBOSE) =>
          /\ IsSubseq(prev.out, out)
          /\ self = "Launch" => Len(prev.out) < Len(out)
          /\ self = "Event" => prev.out = out
    /\ pc = "done" /\ self \in {"Event", "Launch"} => Count(out, {"type"}) = 1

\* a Launch was displayed at NORMAL and then at VERBOSE
C2_Witness ==
    /\ Pair(NORMAL, VERBOSE)
    /\ self = "Launch"
    /\ Count(prev.out, {"description"}) >= 2
    /\ Len(out) > Len(prev.out)

\* an Event was displayed at NORMAL and then at VERBOSE
C2_WitnessEvent ==
    /\ Pair(NORMAL, VERBOSE)
    /\ self = "Event"

\* ------------------------------------------------------------ C5

\* s without its trailing spaces
RStrip(s) ==
    LET ns == {k \in 1..Len(s) : s[k] # SP}
    IN  IF ns = {} THEN <<>>
        ELSE SubSeq(s, 1, CHOOSE k \in ns : \A j \in ns : j <= k)

\* s without its first n characters
Drop(s, n) == SubSeq(s, n + 1, Len(s))

\* line l is line e with the label "Event Type: " replaced by "Launch Type: "
SameButLabel(e, l) ==
    /\ e.kind = "type" /\ l.kind = "type"
    /\ e.left = l.left /\ e.right = l.right
    /\ HasBorders(e.text) /\ HasBorders(l.text)
    /\ HasPrefix(Interior(e.text), EVENT_LABEL)
    /\ HasPrefix(Interior(l.text), LAUNCH_LABEL)
    /\ RStrip(Drop(Interior(e.text), Len(EVENT_LABEL)))
          = RStrip(Drop(Interior(l.text), Len(LAUNCH_LABEL)))

\* the lines of a Launch's output without the block of 14 after the type line
WithoutBlock(o) ==
    LET t == TypeAt(o) IN SubSeq(o, 1, t) \o SubSeq(o, t + 15, Len(o))

\* C5: Launch.display emits the lines Event.display emits for the same five fields,
\* with the type label "Launch Type: ", and at VERBOSE, only there, one filler line
\* and all the lines of Rocket.display(launch.rocket) right after the type line;
\* the filler + description block follows at NORMAL and at VERBOSE, never at QUIET.
C5_LaunchRefinesEvent ==
    /\ Done("Launch") /\ prev.self = "Event" /\ prev.verbosity = verbosity =>
          LET lo == IF verbosity = VERBOSE THEN WithoutBlock(out) ELSE out
          IN  /\ Len(lo) = Len(prev.out)
              /\ \A k \in 1..Len(lo) :
                    IF lo[k].kind = "type" THEN SameButLabel(prev.out[k], lo[k])
                    ELSE lo[k] = prev.out[k]
    /\ Done("Launch") /\ verbosity = VERBOSE =>
          /\ out[TypeAt(out) + 1].kind = "filler"
          /\ Interior(out[TypeAt(out) + 1].text) = Rep(SP, MAX_LINE_LENGTH)
          /\ Count(out, RocketKinds) = 13
          /\ prev.self = "Rocket" =>
                SubSeq(out, TypeAt(out) + 2, TypeAt(out) + 14) = prev.out
    /\ Done("Launch") /\ verbosity # VERBOSE => Count(out, RocketKinds) = 0
    /\ Done("Launch") /\ verbosity = QUIET => out[Len(out)].kind = "type"
    /\ Done("Launch") /\ verbosity # QUIET =>
          LET d == Len(out) - Len(mission_description_lines)
          IN  /\ d > TypeAt(out)
              /\ out[d].kind = "filler"
              /\ out[d - 1].kind \in {"type", "rocket_bottom"}
              /\ \A j \in 1..Len(mission_description_lines) :
                    /\ out[d + j].kind = "description"
                    /\ HasPrefix(Interior(out[d + j].text), mission_description_lines[j])

\* a Launch was displayed at VERBOSE after the Event of the same fields, and one
\* after its rocket alone
C5_Witness ==
    /\ Done("Launch")
    /\ verbosity = VERBOSE
    /\ prev.self = "Event"
    /\ prev.verbosity = VERBOSE
    /\ Count(out, {"description"}) >= 2
    /\ Len(out) = Len(prev.out) + 14

\* ------------------------------------------------------------ C9

\* C9: displaying the same record at the same verbosity twice prints the same lines
\* both times, and no step of a display changes a field of the Event, the Launch or
\* its Rocket.
C9_Idempotent ==
    /\ [](pc = "done" /\ prev.self = self
            /\ (self = "Rocket" \/ prev.verbosity = verbosity)
          => out = prev.out)
    /\ [][event' = event /\ launch' = launch]_vars

\* the same Launch was displayed at VERBOSE twice in a row
C9_Witness ==
    /\ Done("Launch")
    /\ prev.self = "Launch"
    /\ prev.verbosity = VERBOSE
    /\ verbosity = VERBOSE
    /\ Len(out) >= 20

\* ------------------------------------------------------------ C6

\* text without its whitespace
Squeeze(text) == SelectSeq(text, LAMBDA c : ~IsSpace(c))

\* " ".join(text.split()): the words of text, one space between two
Normalize(text) ==
    LET keep(k) ==
            \/ ~IsSpace(text[k])
            \/ /\ k < Len(text)
               /\ ~IsSpace(text[k + 1])
               /\ \E j \in 1..(k - 1) : ~IsSpace(text[j])
        ks == SelectSeq([k \in 1..Len(text) |-> k], keep)
    IN  [n \in 1..Len(ks) |-> IF IsSpace(text[ks[n]]) THEN SP ELSE text[ks[n]]]

RECURSIVE Join(_)
\* " ".join(lines)
Join(lines) ==
    IF lines = <<>> THEN <<>>
    ELSE IF Len(lines) = 1 THEN lines[1]
    ELSE lines[1] \o <<SP>> \o Join(Tail(lines))

\* the lines without their indent
Bodies(lines, indent) == [k \in 1..Len(lines) |-> Drop(lines[k], Len(indent))]

\* no word of text has more than room characters
NoLongWord(text, room) ==
    \A k \in 1..(Len(text) - room) :
        \E j \in k..(k + room) : IsSpace(text[j])

\* the claim's two parts, for the lines textwrap made of text
FitsAndRejoins(text, lines, indent) ==
    /\ \A k \in 1..Len(lines) : Len(lines[k]) <= MAX_LINE_LENGTH
    /\ Normalize(Join(Bodies(lines, indent))) = Normalize(text)

\* what holds of the lines textwrap made of text
FitsAndKeepsText(text, lines, indent) ==
    /\ \A k \in 1..Len(lines) :
          /\ Len(lines[k]) <= MAX_LINE_LENGTH
          /\ HasPrefix(lines[k], indent)
          /\ Len(lines[k]) > Len(indent)
    /\ Squeeze(Concat(Bodies(lines, indent))) = Squeeze(text)
    /\ NoLongWord(text, MAX_LINE_LENGTH - Len(indent))
          /\ (\A k \in 1..Len(text) : text[k] # "-")
       => Normalize(Join(Bodies(lines, indent))) = Normalize(text)

\* C6 as claimed: every wrapped line of mission_name (no indent) and of
\* mission_description (4-space indent) is at most W long, and joining the lines
\* (indent removed) with single spaces gives the text back up to whitespace
\* normalization, also when the text has a word longer than W.
C6_WrapRejoins ==
    /\ pc \in {"E42", "L91"} =>
          FitsAndRejoins(event.mission_name, mission_name_lines, <<>>)
    /\ pc \in {"E71", "L124"} =>
          FitsAndRejoins(event.mission_description, mission_description_lines, INDENT)

\* C6 amended: every wrapped line is at most W long, indent included, and the lines
\* (indent removed) hold the non-whitespace characters of the text, all of them and
\* in order; joining them with single spaces gives the text back up to whitespace
\* normalization when the text has no word longer than the room of a line (W for
\* the name, W - 4 for the description) and no hyphen: a longer word is split over
\* lines, and a line may end at a hyphen inside a word, and the join then puts a
\* space inside the word.
C6_WrapKeepsText ==
    /\ pc \in {"E42", "L91"} =>
          FitsAndKeepsText(event.mission_name, mission_name_lines, <<>>)
    /\ pc \in {"E71", "L124"} =>
          FitsAndKeepsText(event.mission_description, mission_description_lines, INDENT)

\* a description with a word longer than a line was wrapped into several lines
C6_Witness ==
    /\ pc = "E71"
    /\ ~NoLongWord(event.mission_description, MAX_LINE_LENGTH - Len(INDENT))
    /\ Len(mission_description_lines) >= 2

\* a description of several words, none too long, was wrapped into several lines
C6_WitnessRejoin ==
    /\ pc = "E71"
    /\ NoLongWord(event.mission_description, MAX_LINE_LENGTH - Len(INDENT))
    /\ \A k \in 1..Len(event.mission_description) : event.mission_description[k] # "-"
    /\ Len(mission_description_lines) >= 2

====
